---- MODULE Spec2Model ----
(***************************************************************************)
(* Model of src/main/pages/js/options.js, the options page of the          *)
(* application: the filter metadata cache (loadedFiltersInfo) of           *)
(* AntiBannerFilters, the checkbox widget adapter (CheckboxUtils), the tab *)
(* router (TopMenu), the rendering of the filter categories and the page   *)
(* controller with its push events and its reset-stats popup.              *)
(*                                                                         *)
(* JavaScript values are modelled as follows.                              *)
(*  - A boolean field that may be missing is one of the strings "true",    *)
(*    "false", "undefined"; only "true" is truthy.                         *)
(*  - A timestamp is a natural number; 0 stands for a missing or zero      *)
(*    timestamp (both are falsy in the code's tests).                      *)
(*  - filters is the array of filter objects; filtersById maps a filter id *)
(*    to the POSITION in filters of the object it references, so that a    *)
(*    write through filtersById[id] is a write to that element of filters, *)
(*    as it is for the shared object in the code.                          *)
(*  - Filter ids are numbers, so a lookup never reaches a property that    *)
(*    the initial object literal {} inherits from its prototype.           *)
(***************************************************************************)
EXTENDS Integers, Sequences, FiniteSets, TLC

VARIABLES
    filters,          \* loadedFiltersInfo.filters
    categories,       \* loadedFiltersInfo.categories
    filtersById,      \* loadedFiltersInfo.filtersById
    lastUpdateTime,   \* loadedFiltersInfo.lastUpdateTime
    checkboxes,       \* the checkbox inputs of the document, by element
    hash,             \* document.location.hash
    prevTabId,        \* TopMenu's prevTabId
    display,          \* style.display of each panel that exists in the document
    navActive,        \* the data-tab values whose nav items carry "active"
    categoryEls,      \* the rendered #category<groupId> nodes
    filterEls,        \* the rendered #filter<filterId> nodes
    handlers,         \* registered getFiltersMetadataResponse listeners
    requests,         \* getFiltersMetadata messages sent and not yet answered
    initCalls,        \* executions of initLoadedFilters since the page loaded
    popup,            \* the reset-stats popup and its hide timers
    editors,          \* the whitelist editor and the user-rules editor
    customFilterPopup, \* the add-custom-filter popup and its steps
    importInputs,     \* the file inputs that importSettingsFile created
    call,             \* the operation executed last, with its arguments
    ret               \* what that operation returned or dispatched

cacheVars == <<filters, categories, filtersById, lastUpdateTime>>
tabVars == <<hash, prevTabId, display, navActive>>
renderVars == <<categoryEls, filterEls, handlers, requests, initCalls>>
widgetVars == <<editors, customFilterPopup, importInputs>>
pageVars == <<tabVars, renderVars, popup, widgetVars>>
vars == <<filters, categories, filtersById, lastUpdateTime, checkboxes,
          hash, prevTabId, display, navActive,
          categoryEls, filterEls, handlers, requests, initCalls, popup,
          editors, customFilterPopup, importInputs, call, ret>>

(***************************************************************************)
(* Bounds                                                                  *)
(***************************************************************************)
MaxFilterId == 2
MaxFilters == 2
MaxTime == 2
MaxCheckboxes == 2

FilterIds == 1..MaxFilterId
GroupIds == {0, 1}
Times == 0..MaxTime
EnabledValues == {"true", "false", "undefined"}
BoolArgs == {"true", "false"}

\* Sequences over S of length at most n.
SeqsUpTo(S, n) == UNION {[1..k -> S] : k \in 0..n}

Max(a, b) == IF a > b THEN a ELSE b

\* The greatest element of a non-empty finite set of numbers.
MaxOfSet(S) == CHOOSE m \in S : \A x \in S : x <= m

Truthy(v) == v = "true"
Falsy(v) == v \in {"false", "undefined"}

(***************************************************************************)
(* Data model: the fields of a filter and of a category that the cache and *)
(* the page logic read.                                                    *)
(***************************************************************************)
Filter(id, g, en, tu, lut) ==
    [filterId |-> id, groupId |-> g, enabled |-> en,
     timeUpdated |-> tu, lastUpdateTime |-> lut]

Category(g) == [groupId |-> g]

\* Inputs of the cache specification. A filter of a metadata response carries
\* its enabled flag; a filter of a push event may carry none. The timestamps
\* play no part there: each filter id has one (its own number, if in range).
IdTime(id) == IF id <= MaxTime THEN id ELSE 0

ResponseFilters == {Filter(id, 0, en, 0, IdTime(id)) : id \in FilterIds, en \in BoolArgs}

EventFilters == {Filter(id, 0, en, 0, IdTime(id)) : id \in FilterIds, en \in EnabledValues}

ResponseLists == SeqsUpTo(ResponseFilters, MaxFilters)

CategoryLists == {<<Category(0)>>, <<Category(0), Category(1)>>}

\* Inputs of the timestamp specification: lists of filters with distinct ids
\* (the i-th has id i), each with a timeUpdated that is missing or present and
\* any lastUpdateTime.
TimeLists ==
    UNION {{[i \in 1..k |-> Filter(i, 0, "true", p[i][1], p[i][2])] :
               p \in [1..k -> {0, MaxTime} \X Times]} : k \in 0..MaxFilters}

(***************************************************************************)
(* loadedFiltersInfo                                                       *)
(***************************************************************************)
\* filtersById[filter.filterId] = filter, where filter is filters[i].
IndexPut_KeepFirst(idx, id, i) ==
    IF id \in DOMAIN idx THEN idx
    ELSE [k \in DOMAIN idx \cup {id} |-> IF k = id THEN i ELSE idx[k]]

IndexPut(idx, id, i) ==
    [k \in DOMAIN idx \cup {id} |-> IF k = id THEN i ELSE idx[k]]

\* The timestamp of a filter that initLoadedFilters reads.
FilterTime_timeUpdated(filter) == filter.timeUpdated

FilterTime(filter) == filter.lastUpdateTime

\* The loop of initLoadedFilters over this.filters: the index built so far.
RECURSIVE IndexLoop(_, _, _)
IndexLoop(F, i, idx) ==
    IF i > Len(F) THEN idx
    ELSE IndexLoop(F, i + 1, IndexPut(idx, F[i].filterId, i))

\* The loop of initLoadedFilters over this.filters: the local lastUpdateTime.
RECURSIVE TimeLoop(_, _, _)
TimeLoop(F, i, acc) ==
    IF i > Len(F) THEN acc
    ELSE TimeLoop(F, i + 1,
                  IF FilterTime(F[i]) # 0 /\ FilterTime(F[i]) > acc
                  THEN FilterTime(F[i]) ELSE acc)

EmptyIndex == [k \in {} |-> 0]

initLoadedFilters_Merge(F, C) ==
    /\ filters' = filters \o F
    /\ categories' = categories \o C
    /\ filtersById' = IndexLoop(filters \o F, 1, EmptyIndex)
    /\ lastUpdateTime' = TimeLoop(filters \o F, 1, 0)

initLoadedFilters(F, C) ==
    /\ filters' = F
    /\ categories' = C
    /\ filtersById' = IndexLoop(F, 1, EmptyIndex)
    /\ lastUpdateTime' = TimeLoop(F, 1, 0)

isEnabled_NoGuard(filterId) ==
    IF filterId \in DOMAIN filtersById
    THEN filters[filtersById[filterId]].enabled
    ELSE "TypeError"

\* info && info.enabled
isEnabled(filterId) ==
    IF filterId \in DOMAIN filtersById
    THEN filters[filtersById[filterId]].enabled
    ELSE "undefined"

updateEnabled_AlwaysPush(filter, enabled) ==
    /\ filters' = Append(filters, [filter EXCEPT !.enabled = enabled])
    /\ filtersById' = IndexPut(filtersById, filter.filterId, Len(filters) + 1)
    /\ UNCHANGED <<categories, lastUpdateTime>>

updateEnabled(filter, enabled) ==
    /\ IF filter.filterId \in DOMAIN filtersById
       THEN /\ filters' = [filters EXCEPT ![filtersById[filter.filterId]].enabled = enabled]
            /\ filtersById' = filtersById
       ELSE /\ filters' = Append(filters, filter)
            /\ filtersById' = IndexPut(filtersById, filter.filterId, Len(filters) + 1)
    /\ UNCHANGED <<categories, lastUpdateTime>>

(***************************************************************************)
(* setLastUpdatedTimeText                                                  *)
(***************************************************************************)
UpdatedTime_NoCompare(t, cur) == IF t # 0 THEN t ELSE cur

\* if (lastUpdateTime && lastUpdateTime > loadedFiltersInfo.lastUpdateTime)
UpdatedTime(t, cur) == IF t # 0 /\ t > cur THEN t ELSE cur

\* The text written to #lastUpdateTime is the formatted value of
\* loadedFiltersInfo.lastUpdateTime after this assignment (empty for 0); it is
\* a function of the cache and is not kept as state.
setLastUpdatedTimeText(t) ==
    /\ lastUpdateTime' = UpdatedTime(t, lastUpdateTime)
    /\ UNCHANGED <<filters, categories, filtersById>>

(***************************************************************************)
(* Initial state: the object literal of loadedFiltersInfo, an empty text.  *)
(***************************************************************************)
NoCall == [name |-> "none"]

InitCache ==
    /\ filters = <<>>
    /\ categories = <<>>
    /\ filtersById = EmptyIndex
    /\ lastUpdateTime = 0

(***************************************************************************)
(* Calls of the cache's operations                                         *)
(***************************************************************************)
CallInitLoadedFilters(F, C) ==
    /\ initLoadedFilters(F, C)
    /\ call' = [name |-> "initLoadedFilters", filters |-> F, categories |-> C,
                previous |-> DOMAIN filtersById]
    /\ ret' = "undefined"
    /\ UNCHANGED <<checkboxes, pageVars>>

CallIsEnabled(filterId) ==
    /\ call' = [name |-> "isEnabled", filterId |-> filterId]
    /\ ret' = isEnabled(filterId)
    /\ UNCHANGED <<cacheVars, checkboxes, pageVars>>

CallUpdateEnabled(filter, enabled) ==
    /\ updateEnabled(filter, enabled)
    /\ call' = [name |-> "updateEnabled", filterId |-> filter.filterId,
                enabled |-> enabled]
    /\ ret' = "undefined"
    /\ UNCHANGED <<checkboxes, pageVars>>

CallSetLastUpdatedTimeText(t) ==
    /\ setLastUpdatedTimeText(t)
    /\ call' = [name |-> "setLastUpdatedTimeText", time |-> t]
    /\ ret' = "undefined"
    /\ UNCHANGED <<checkboxes, pageVars>>

(***************************************************************************)
(* CheckboxUtils                                                           *)
(*                                                                         *)
(* A checkbox input of the document is a record:                           *)
(*   checkedAttr   the content attribute "checked" is present              *)
(*   checked       the checkedness, i.e. the value of checkbox.checked     *)
(*   dirty         the dirty checkedness flag of the input: set when a     *)
(*                 script assigns checkbox.checked; while it is set, the   *)
(*                 content attribute no longer drives the checkedness      *)
(*   toggleCheckbox  the attribute "toggleCheckbox" is set                 *)
(*   togglers      the number of div.toggler siblings inserted after it    *)
(*   clickListeners, changeListeners  the listeners toggleCheckbox added   *)
(*   togglerActive the toggler carries the class "active"                  *)
(*   liActive      the enclosing li carries the class "active"             *)
(*   hidden        style.display is 'none'                                 *)
(* Every checkbox is inside an li, as in the templates of the page.        *)
(***************************************************************************)
Elements == 1..MaxCheckboxes

\* A checkbox as the HTML parser leaves it: the checkedness follows the
\* content attribute and the input is not dirty.
ParsedCheckbox(attr, li) ==
    [checkedAttr |-> attr, checked |-> attr, dirty |-> FALSE,
     toggleCheckbox |-> FALSE, togglers |-> 0,
     clickListeners |-> 0, changeListeners |-> 0,
     togglerActive |-> FALSE, liActive |-> li, hidden |-> FALSE]

\* onClicked(checked) of toggleCheckbox: the classes of the toggler and the li.
onClicked(cb, checked) ==
    [cb EXCEPT !.togglerActive = checked, !.liActive = checked]

\* The body of the forEach of toggleCheckbox for one checkbox.
Decorate_NoGuard(cb) ==
    [onClicked(cb, cb.checked) EXCEPT
        !.togglers = @ + 1, !.clickListeners = @ + 1, !.changeListeners = @ + 1,
        !.hidden = TRUE, !.toggleCheckbox = TRUE]

Decorate(cb) ==
    IF cb.toggleCheckbox THEN cb
    ELSE [onClicked(cb, cb.checked) EXCEPT
            !.togglers = @ + 1, !.clickListeners = @ + 1, !.changeListeners = @ + 1,
            !.hidden = TRUE, !.toggleCheckbox = TRUE]

\* el.setAttribute('checked', 'checked') / el.removeAttribute('checked'):
\* the checkedness follows the attribute only while the input is not dirty.
SetCheckedAttr(cb, present) ==
    [cb EXCEPT !.checkedAttr = present,
               !.checked = IF cb.dirty THEN @ ELSE present]

\* The body of the forEach of updateCheckbox for one element.
UpdateOne(cb, checked) ==
    [SetCheckedAttr(cb, checked) EXCEPT !.liActive = checked]

\* The click listener of a toggler: the assignment to checkbox.checked (which
\* sets the dirty flag) and the change event it dispatches, handled by every
\* change listener toggleCheckbox added to the checkbox.
ClickToggler(cb) ==
    LET flipped == [cb EXCEPT !.checked = ~cb.checked, !.dirty = TRUE]
    IN  IF cb.changeListeners > 0 THEN onClicked(flipped, flipped.checked) ELSE flipped

toggleCheckbox(elements) ==
    checkboxes' = [c \in Elements |->
                     IF c \in elements THEN Decorate(checkboxes[c]) ELSE checkboxes[c]]

updateCheckbox(elements, checked) ==
    checkboxes' = [c \in Elements |->
                     IF c \in elements THEN UpdateOne(checkboxes[c], checked)
                     ELSE checkboxes[c]]

InitCheckboxes ==
    checkboxes \in [Elements -> {ParsedCheckbox(a, li) : a \in BOOLEAN, li \in BOOLEAN}]

CallToggleCheckbox(elements) ==
    /\ toggleCheckbox(elements)
    /\ call' = [name |-> "toggleCheckbox", elements |-> elements,
                already |-> {c \in elements : checkboxes[c].toggleCheckbox}]
    /\ ret' = "undefined"
    /\ UNCHANGED <<cacheVars, pageVars>>

CallUpdateCheckbox(elements, checked) ==
    /\ updateCheckbox(elements, checked)
    /\ call' = [name |-> "updateCheckbox", elements |-> elements, checked |-> checked,
                toggled |-> {c \in elements : checkboxes[c].dirty}]
    /\ ret' = "undefined"
    /\ UNCHANGED <<cacheVars, pageVars>>

\* The user clicks the toggler of a decorated checkbox; ret is the number of
\* change events the listener dispatched.
TogglerClick(c) ==
    /\ checkboxes[c].togglers > 0
    /\ checkboxes' = [checkboxes EXCEPT ![c] = ClickToggler(checkboxes[c])]
    /\ call' = [name |-> "togglerClick", element |-> c,
                before |-> checkboxes[c].checked]
    /\ ret' = checkboxes[c].clickListeners
    /\ UNCHANGED <<cacheVars, pageVars>>

(***************************************************************************)
(* TopMenu                                                                 *)
(*                                                                         *)
(* A hash or tab id is the record of a name and a suffix: "#antibanner5"   *)
(* is the name "#antibanner" with the suffix <<5>>, so that                *)
(* tabId.indexOf('#antibanner') === 0 is a test of the name. A panel       *)
(* exists when its id is in the domain of display; its style.display is "" *)
(* until the router sets it, and the panel is visible when it is "block"   *)
(* (the stylesheet, which is not part of the sources, is taken to hide a   *)
(* panel that has no inline display and to highlight no nav item).         *)
(* The hashes considered are those of the page's links, a deferred         *)
(* sub-panel hash and one that names no element; every static panel has a  *)
(* nav item.                                                               *)
(***************************************************************************)
TabId(name, suffix) == [name |-> name, suffix |-> suffix]

EmptyHash == TabId("", <<>>)
GENERAL_SETTINGS == TabId("#general-settings", <<>>)
ANTIBANNER == TabId("#antibanner", <<>>)
WHITELIST == TabId("#whitelist", <<>>)
UnknownHash == TabId("#no-such-element", <<>>)
AntibannerPanel(g) == TabId("#antibanner", <<g>>)

\* prevTabId before the first transition, and the early return of toggleTab.
NoTab == TabId("undefined", <<>>)
Deferred == TabId("return", <<>>)

StaticPanels == {GENERAL_SETTINGS, ANTIBANNER, WHITELIST}
NavItems == {t.name : t \in StaticPanels}
Hashes == StaticPanels \cup {EmptyHash, UnknownHash} \cup {AntibannerPanel(g) : g \in GroupIds}

StartsWithAntibanner(tabId) == tabId.name = ANTIBANNER.name

\* Lines 144-155 of toggleTab: the tab the hash resolves to.
ResolveTabId_NoDefer(h, disp) ==
    LET tabId == IF h = EmptyHash THEN GENERAL_SETTINGS ELSE h
    IN  IF tabId \notin DOMAIN disp THEN GENERAL_SETTINGS ELSE tabId

ResolveTabId_NoFallback(h, disp) ==
    LET tabId == IF h = EmptyHash THEN GENERAL_SETTINGS ELSE h
    IN  IF StartsWithAntibanner(tabId) /\ tabId \notin DOMAIN disp THEN Deferred
        ELSE tabId

ResolveTabId(h, disp) ==
    LET tabId == IF h = EmptyHash THEN GENERAL_SETTINGS ELSE h
    IN  IF StartsWithAntibanner(tabId) /\ tabId \notin DOMAIN disp THEN Deferred
        ELSE IF tabId \notin DOMAIN disp THEN GENERAL_SETTINGS
        ELSE tabId

\* document.querySelector(prevTabId).style.display = 'none'
HidePrevious_Skip(prev, disp) == disp

HidePrevious(prev, disp) == [disp EXCEPT ![prev] = "none"]

\* Lines 181-185: the number of calls of onHashUpdatedCallback, which
\* PageController.init sets to a function.
CallbackCalls_Always(tabId) == 1

CallbackCalls(tabId) == IF tabId = WHITELIST THEN 1 ELSE 0

\* The nav item(s) of a tab: those of '#antibanner' for every tab id that
\* starts with it, the one named by the tab id otherwise.
NavOf(tabId) == IF StartsWithAntibanner(tabId) THEN ANTIBANNER.name ELSE tabId.name

\* toggleTab as a function of the hash and the router's state. outcome is
\* "return" for the early return, "TypeError" when a querySelector result
\* that is null is dereferenced, "shown" otherwise.
ToggleTab(h, prev, disp, nav) ==
    LET tabId == ResolveTabId(h, disp)
        nav1  == IF prev = NoTab THEN nav ELSE nav \ {NavOf(prev)}
        disp1 == IF prev = NoTab THEN disp ELSE HidePrevious(prev, disp)
    IN  IF tabId = Deferred
        THEN [prevTabId |-> prev, display |-> disp, navActive |-> nav,
              callbacks |-> 0, outcome |-> "return"]
        ELSE IF prev # NoTab /\ (NavOf(prev) \notin NavItems \/ prev \notin DOMAIN disp)
        THEN [prevTabId |-> prev, display |-> disp,
              navActive |-> IF NavOf(prev) \in NavItems THEN nav1 ELSE nav,
              callbacks |-> 0, outcome |-> "TypeError"]
        ELSE IF NavOf(tabId) \notin NavItems
        THEN [prevTabId |-> prev, display |-> disp1, navActive |-> nav1,
              callbacks |-> 0, outcome |-> "TypeError"]
        ELSE IF tabId \notin DOMAIN disp
        THEN [prevTabId |-> prev, display |-> disp1,
              navActive |-> nav1 \cup {NavOf(tabId)},
              callbacks |-> 0, outcome |-> "TypeError"]
        ELSE [prevTabId |-> tabId,
              display |-> [disp1 EXCEPT ![tabId] = "block"],
              navActive |-> nav1 \cup {NavOf(tabId)},
              callbacks |-> CallbackCalls(tabId), outcome |-> "shown"]

Visible(p) == p \in DOMAIN display /\ display[p] = "block"

\* What a handler of the page reports: the whitelist callbacks it made, how
\* it ended ("none" when it does not call toggleTab and raises nothing), the
\* types of the messages it sent with ipcRenderer.send and the popup
\* messages it showed to the user.
Handled(callbacks, outcome, sent) ==
    [callbacks |-> callbacks, outcome |-> outcome, sent |-> sent, shown |-> <<>>]

Dispatched(outcome) == Handled(0, outcome, <<>>)

(***************************************************************************)
(* AntiBannerFilters: rendering of the categories                          *)
(*                                                                         *)
(* A rendered #category<groupId> node is the record of the text of its     *)
(* .desc (the enabled count; the prefix 'Enabled filters: ' is constant)   *)
(* and of its checkbox; a rendered #filter<filterId> node the record of    *)
(* the panel that holds it and of its checkbox.                            *)
(***************************************************************************)
\* The filters of the rendered page: one of each group. The group of a filter
\* is part of its metadata, the same in every response and every push event.
PageFilterIds == {1, 2}

GroupOf(id) == IF id % 2 = 0 THEN 0 ELSE 1

PageFilter(id, en) == Filter(id, GroupOf(id), en, 0, IdTime(id))

\* A category of a response, with the filters of its group. Which of the two
\* lists holds a filter only decides the layout of the panel.
PageCategory(g, F) ==
    [groupId |-> g,
     filters |-> [otherFilters |-> SelectSeq(F, LAMBDA f : f.groupId = g),
                  recommendedFilters |-> <<>>]]

\* The elements of a set of numbers in increasing order.
RECURSIVE Ascending(_)
Ascending(S) ==
    IF S = {} THEN <<>>
    ELSE LET m == MaxOfSet(S) IN Append(Ascending(S \ {m}), m)

Response(F, groups) ==
    [filters |-> F,
     categories |-> [j \in DOMAIN groups |-> PageCategory(groups[j], F)]]

GroupLists == {Ascending(G) : G \in SUBSET GroupIds}

\* Responses whose filters have distinct ids, each with an enabled flag.
FilterLists ==
    UNION {{[i \in DOMAIN Ascending(S) |-> PageFilter(Ascending(S)[i], en[Ascending(S)[i]])] :
               en \in [S -> BoolArgs]} : S \in SUBSET PageFilterIds}

PageResponses == {Response(F, groups) : F \in FilterLists, groups \in GroupLists}

\* Responses without filters, for the tab router.
TabResponses == {Response(<<>>, groups) : groups \in GroupLists}

\* Filters of push events.
PageEventFilters == {PageFilter(id, en) : id \in PageFilterIds, en \in BoolArgs}

NoElements == [k \in {} |-> 0]

\* getFiltersByGroupId and countEnabledFilters on loadedFiltersInfo.filters.
countEnabledFilters(groupFilters) ==
    Cardinality({i \in DOMAIN groupFilters : Truthy(isEnabled(groupFilters[i].filterId))})

getFiltersByGroupId(groupId, F) == SelectSeq(F, LAMBDA f : f.groupId = groupId)

EnabledCount(groupId) == countEnabledFilters(getFiltersByGroupId(groupId, filters))

\* The rendered nodes as one value: dom.display, dom.categoryEls, dom.filterEls.
Dom(disp, cats, flts) == [display |-> disp, categoryEls |-> cats, filterEls |-> flts]

Restrict(f, S) == [k \in S |-> f[k]]

\* Lines 620-627 of renderFilterCategory: the old panel and the old node of
\* this category are removed, the panel with the filter nodes inside it.
RemoveCategory(dom, g) ==
    Dom(Restrict(dom.display, DOMAIN dom.display \ {AntibannerPanel(g)}),
        Restrict(dom.categoryEls, DOMAIN dom.categoryEls \ {g}),
        Restrict(dom.filterEls, {id \in DOMAIN dom.filterEls : dom.filterEls[id].panel # g}))

\* The node of getFilterCategoryElement after updateCategoryFiltersInfo:
\* an li of class "active" with an unchecked input, then the count and
\* updateCheckbox([checkbox], count > 0).
CategoryNode(count) ==
    [desc |-> count, checkbox |-> UpdateOne(ParsedCheckbox(FALSE, TRUE), count > 0)]

\* Lines 464-473 on a rendered category node.
updateCategoryFiltersInfo(node, count) ==
    [desc |-> count, checkbox |-> UpdateOne(node.checkbox, count > 0)]

\* The node of getFilterTemplate: checked="checked" when enabled is truthy.
FilterNode(g, enabled) == [panel |-> g, checkbox |-> ParsedCheckbox(Truthy(enabled), FALSE)]

Put(f, k, v) == [x \in DOMAIN f \cup {k} |-> IF x = k THEN v ELSE f[x]]

RECURSIVE AddFilterNodes(_, _, _, _, _)
AddFilterNodes(flts, g, list, i, en) ==
    IF i > Len(list) THEN flts
    ELSE AddFilterNodes(IF list[i].filterId \in DOMAIN flts THEN flts
                        ELSE Put(flts, list[i].filterId, FilterNode(g, en[list[i].filterId])),
                        g, list, i + 1, en)

\* renderFilterCategory(category); count and en are the enabled counts and
\* the isEnabled results of the cache at the time of the call.
renderFilterCategory(dom, category, count, en) ==
    LET g == category.groupId
        d == RemoveCategory(dom, g)
    IN  Dom(Put(d.display, AntibannerPanel(g), ""),
            Put(d.categoryEls, g, CategoryNode(count[g])),
            AddFilterNodes(d.filterEls, g,
                           category.filters.otherFilters \o category.filters.recommendedFilters,
                           1, en))

\* The loop of lines 674-676.
RECURSIVE RenderLoop(_, _, _, _, _)
RenderLoop(dom, cats, j, count, en) ==
    IF j > Len(cats) THEN dom
    ELSE RenderLoop(renderFilterCategory(dom, cats[j], count, en), cats, j + 1, count, en)

\* CheckboxUtils.toggleCheckbox on every ".opt-state input[type=checkbox]".
DecorateAll(dom) ==
    Dom(dom.display,
        [g \in DOMAIN dom.categoryEls |->
            [dom.categoryEls[g] EXCEPT !.checkbox = Decorate(@)]],
        [id \in DOMAIN dom.filterEls |->
            [dom.filterEls[id] EXCEPT !.checkbox = Decorate(@)]])

\* Line 683: hash && hash.indexOf('#antibanner') === 0
HashIsAntibanner_Never(h) == FALSE

HashIsAntibanner(h) == h # EmptyHash /\ StartsWithAntibanner(h)

(***************************************************************************)
(* PageController: the reset-stats popup                                   *)
(*                                                                         *)
(* popup is the record of                                                  *)
(*   display              style.display of #resetStatsPopup                *)
(*   closePopupTimeoutId  the field of the controller; 0 is undefined      *)
(*   pending              the timers set and neither fired nor cleared: a  *)
(*                        function from the timer id to the milliseconds   *)
(*                        left until it is due                             *)
(*   created              the number of setTimeout calls; the ids that     *)
(*                        setTimeout returns are 1, 2, ...                 *)
(*   sinceTrigger         milliseconds since the latest _onStatsReset,     *)
(*                        counted up to PopupHideDelay                     *)
(*   hides                the timer callbacks run since that trigger       *)
(*   cleared              the pending timers that clearTimeout cancelled   *)
(***************************************************************************)
PopupHideDelay == 4000
MaxTriggers == 2

\* Time advances in steps of TickMs milliseconds, TicksPerDelay of them (or
\* one more) in the delay; a click falls on a step.
TicksPerDelay == 40
TickMs == PopupHideDelay \div TicksPerDelay

PopupHidden ==
    [display |-> "", closePopupTimeoutId |-> 0, pending |-> NoElements,
     created |-> 0, sinceTrigger |-> 0, hides |-> 0, cleared |-> 0]

\* this.resetStatsPopup.style.display = 'block'
ShowPopup(p) == [p EXCEPT !.display = "block"]

\* if (this.closePopupTimeoutId) clearTimeout(this.closePopupTimeoutId)
ClearTimeout_Skip(p) == p

ClearTimeout(p) ==
    IF p.closePopupTimeoutId # 0
    THEN [p EXCEPT !.pending = Restrict(@, DOMAIN @ \ {p.closePopupTimeoutId}),
                   !.cleared = IF p.closePopupTimeoutId \in DOMAIN p.pending
                               THEN @ + 1 ELSE @]
    ELSE p

\* this.closePopupTimeoutId = setTimeout(..., 4000)
SetTimeout_NoStore(p) ==
    [p EXCEPT !.pending = Put(@, p.created + 1, PopupHideDelay),
              !.created = @ + 1]

SetTimeout(p) ==
    [p EXCEPT !.pending = Put(@, p.created + 1, PopupHideDelay),
              !.closePopupTimeoutId = p.created + 1,
              !.created = @ + 1]

\* onResetStatsClicked: _onStatsReset.
StatsReset ==
    /\ popup.created < MaxTriggers
    /\ popup' = [SetTimeout(ClearTimeout(ShowPopup(popup))) EXCEPT
                    !.sinceTrigger = 0, !.hides = 0]
    /\ call' = [name |-> "onResetStatsClicked"]
    /\ ret' = Dispatched("none")
    /\ UNCHANGED <<cacheVars, checkboxes, tabVars, renderVars, widgetVars>>

\* Time passes while a timer is pending and none is due.
Tick ==
    /\ DOMAIN popup.pending # {}
    /\ \A id \in DOMAIN popup.pending : popup.pending[id] > 0
    /\ popup' = [popup EXCEPT
                    !.pending = [id \in DOMAIN @ |->
                                    IF @[id] > TickMs THEN @[id] - TickMs ELSE 0],
                    !.sinceTrigger = IF @ + TickMs < PopupHideDelay
                                     THEN @ + TickMs ELSE PopupHideDelay]
    /\ call' = [name |-> "tick"]
    /\ ret' = Dispatched("none")
    /\ UNCHANGED <<cacheVars, checkboxes, tabVars, renderVars, widgetVars>>

\* A due timer runs its callback: this.resetStatsPopup.style.display = 'none'
TimerFires(id) ==
    /\ id \in DOMAIN popup.pending
    /\ popup.pending[id] = 0
    /\ popup' = [popup EXCEPT
                    !.display = "none",
                    !.pending = Restrict(@, DOMAIN @ \ {id}),
                    !.hides = @ + 1]
    /\ call' = [name |-> "timeout", id |-> id]
    /\ ret' = Dispatched("none")
    /\ UNCHANGED <<cacheVars, checkboxes, tabVars, renderVars, widgetVars>>

(***************************************************************************)
(* The page: its events                                                    *)
(***************************************************************************)
MaxRenders == 2

\* The window's hashchange listener: toggleTab.
HashChange(h) ==
    /\ h # hash
    /\ hash' = h
    /\ LET t == ToggleTab(h, prevTabId, display, navActive)
       IN  /\ prevTabId' = t.prevTabId
           /\ display' = t.display
           /\ navActive' = t.navActive
           /\ ret' = Handled(t.callbacks, t.outcome, <<>>)
    /\ call' = [name |-> "hashchange", hash |-> h, rendered |-> DOMAIN display,
                prevTabId |-> prevTabId]
    /\ UNCHANGED <<cacheVars, checkboxes, renderVars, popup, widgetVars>>

\* ipcRenderer.on adds a listener and removes none: a response runs all of
\* the h listeners registered so far.
ListenersRun_One(h) == 1

ListenersRun(h) == h

\* The backend answers a getFiltersMetadata request: every listener that
\* renderCategoriesAndFilters registered handles the response. The body of
\* the listener gives the same cache and the same document when it runs
\* again on the same response, so the listeners after the first only add to
\* the count of initLoadedFilters executions.
MetadataResponse(response) ==
    /\ requests > 0
    /\ requests' = requests - 1
    /\ initCalls' = initCalls + ListenersRun(handlers)
    /\ initLoadedFilters(response.filters, response.categories)
    /\ lastUpdateTime' = UpdatedTime(lastUpdateTime', lastUpdateTime')
    /\ toggleCheckbox(Elements)
    /\ \E count \in {[g \in GroupIds |-> EnabledCount(g)']},
          en \in {[id \in PageFilterIds |-> isEnabled(id)']} :
       \E dom \in {DecorateAll(RenderLoop(Dom(display, categoryEls, filterEls),
                                          response.categories, 1, count, en))} :
       \E t \in {IF HashIsAntibanner(hash)
                  THEN ToggleTab(hash, prevTabId, dom.display, navActive)
                  ELSE [prevTabId |-> prevTabId, display |-> dom.display,
                        navActive |-> navActive, callbacks |-> 0, outcome |-> "none"]} :
           /\ categoryEls' = dom.categoryEls
           /\ filterEls' = dom.filterEls
           /\ prevTabId' = t.prevTabId
           /\ display' = t.display
           /\ navActive' = t.navActive
           /\ ret' = Handled(t.callbacks, t.outcome, <<>>)
    /\ call' = [name |-> "getFiltersMetadataResponse", response |-> response,
                rendered |-> DOMAIN display]
    /\ UNCHANGED <<hash, handlers, popup, widgetVars>>

\* The FILTER_ADD_REMOVE listener: antiBannerFilters.render(), which
\* registers one more listener and sends one more request.
FilterAddRemove ==
    /\ handlers < MaxRenders
    /\ handlers' = handlers + 1
    /\ requests' = requests + 1
    /\ call' = [name |-> "FILTER_ADD_REMOVE"]
    /\ ret' = Handled(0, "none", <<"getFiltersMetadata">>)
    /\ UNCHANGED <<cacheVars, checkboxes, tabVars, categoryEls, filterEls, initCalls, popup,
                   widgetVars>>

\* The FILTER_ENABLE_DISABLE listener: onFilterStateChanged(filter). ret is
\* "TypeError" when the handler dereferences a node that is not rendered.
FilterEnableDisable(filter) ==
    /\ updateEnabled(filter, filter.enabled)
    /\ IF filter.groupId \notin DOMAIN categoryEls
       THEN /\ ret' = Dispatched("TypeError")
            /\ UNCHANGED <<categoryEls, filterEls>>
       ELSE /\ categoryEls' = [categoryEls EXCEPT ![filter.groupId] =
                                  updateCategoryFiltersInfo(@, EnabledCount(filter.groupId)')]
            /\ IF filter.filterId \notin DOMAIN filterEls
               THEN /\ ret' = Dispatched("TypeError")
                    /\ UNCHANGED filterEls
               ELSE /\ ret' = Dispatched("none")
                    /\ filterEls' = [filterEls EXCEPT ![filter.filterId].checkbox =
                                        UpdateOne(@, Truthy(filter.enabled))]
    /\ call' = [name |-> "FILTER_ENABLE_DISABLE", filter |-> filter]
    /\ UNCHANGED <<checkboxes, tabVars, handlers, requests, initCalls, popup, widgetVars>>

\* The user clicks the toggler of a rendered category; the change event
\* reaches toggleGroupState, which changes nothing.
CategoryTogglerClick(g) ==
    /\ g \in DOMAIN categoryEls
    /\ categoryEls[g].checkbox.togglers > 0
    /\ categoryEls' = [categoryEls EXCEPT ![g].checkbox = ClickToggler(@)]
    /\ call' = [name |-> "categoryTogglerClick", groupId |-> g]
    /\ ret' = Dispatched("none")
    /\ UNCHANGED <<cacheVars, checkboxes, tabVars, filterEls, handlers, requests,
                   initCalls, popup, widgetVars>>

(***************************************************************************)
(* WhiteListFilter and UserFilter                                          *)
(*                                                                         *)
(* The two components have the same code. An editor is the record of       *)
(*   omitRenderEventsCount  the counter of the component                   *)
(*   readOnly               the read-only option of the Ace editor         *)
(*   applyChangesBtn        style.display of the apply-changes button      *)
(***************************************************************************)
Editors == {"whiteListRules", "userRules"}

EditorIdle == [omitRenderEventsCount |-> 0, readOnly |-> FALSE, applyChangesBtn |-> ""]

\* saveWhiteListDomains / saveUserRules: the message to the backend and its
\* callback, which would make the editor editable again, are commented out.
saveRules_Increment(ed) ==
    [ed EXCEPT !.omitRenderEventsCount = @ + 1, !.readOnly = TRUE]

saveRules_WithCallback(ed) ==
    [ed EXCEPT !.omitRenderEventsCount = 1, !.readOnly = FALSE,
               !.applyChangesBtn = "none"]

saveRules(ed) == [ed EXCEPT !.omitRenderEventsCount = 1, !.readOnly = TRUE]

\* loadWhiteListDomains / loadUserRules: the whole body is commented out.
loadRules(ed) == ed

\* updateWhiteListDomains / updateUserFilterRules
updateRules(ed) ==
    IF ed.omitRenderEventsCount > 0
    THEN [ed EXCEPT !.omitRenderEventsCount = @ - 1]
    ELSE loadRules(ed)

\* A click on the apply-changes button of an editor.
SaveClick(e) ==
    /\ editors' = [editors EXCEPT ![e] = saveRules(@)]
    /\ call' = [name |-> "saveClick", editor |-> e]
    /\ ret' = Dispatched("none")
    /\ UNCHANGED <<cacheVars, checkboxes, tabVars, renderVars, popup,
                   customFilterPopup, importInputs>>

\* An update notification for an editor: the function the component exports.
\* The outcome is "skipped" for the early return, "loaded" for a reload.
UpdateNotification(e) ==
    /\ editors' = [editors EXCEPT ![e] = updateRules(@)]
    /\ call' = [name |-> "updateNotification", editor |-> e]
    /\ ret' = Dispatched(IF editors[e].omitRenderEventsCount > 0
                         THEN "skipped" ELSE "loaded")
    /\ UNCHANGED <<cacheVars, checkboxes, tabVars, renderVars, popup,
                   customFilterPopup, importInputs>>

\* The user edits the text, which a read-only editor does not allow; the
\* session's change listener shows the apply-changes button.
EditorChange(e) ==
    /\ ~editors[e].readOnly
    /\ editors' = [editors EXCEPT ![e].applyChangesBtn = "block"]
    /\ call' = [name |-> "editorChange", editor |-> e]
    /\ ret' = Dispatched("none")
    /\ UNCHANGED <<cacheVars, checkboxes, tabVars, renderVars, popup,
                   customFilterPopup, importInputs>>

(***************************************************************************)
(* AntiBannerFilters: the add-custom-filter popup                          *)
(*                                                                         *)
(* customFilterPopup is the record of                                      *)
(*   active  #add-custom-filter-popup carries 'option-popup--active'       *)
(*   steps   the steps n whose #add-custom-filter-step-n carries           *)
(*           POPUP_ACTIVE_CLASS                                            *)
(*   opens   the calls of renderCustomFilterPopup: each adds one listener  *)
(*           to the cross, cancel, next and try-again buttons              *)
(* renderStepThree and renderStepFour are called from commented-out code   *)
(* only, so the back, subscribe and remove buttons never get a listener.   *)
(***************************************************************************)
MaxOpens == 2

Steps == {1, 2, 3, 4}

CustomPopupClosed(steps) == [active |-> FALSE, steps |-> steps, opens |-> 0]

clearActiveStep_Skip(p) == p

clearActiveStep(p) == [p EXCEPT !.steps = {}]

\* renderStepOne, renderStepTwo
renderStep(p, n) == [clearActiveStep(p) EXCEPT !.steps = @ \cup {n}]

closePopup(p) == [p EXCEPT !.active = FALSE]

\* renderCustomFilterPopup
renderCustomFilterPopup(p) ==
    renderStep([p EXCEPT !.active = TRUE, !.opens = @ + 1], 1)

\* A click on #addCustomFilter, which has the listener that bindControls adds
\* when a metadata response is handled (the same function every time, so one
\* listener): addCustomFilter. The hashchange event that the assignment of
\* the hash causes is handled with it.
AddCustomFilter ==
    /\ initCalls > 0
    /\ customFilterPopup.opens < MaxOpens
    /\ hash' = ANTIBANNER
    /\ \E t \in {IF hash = ANTIBANNER
                 THEN [prevTabId |-> prevTabId, display |-> display,
                       navActive |-> navActive, callbacks |-> 0, outcome |-> "none"]
                 ELSE ToggleTab(ANTIBANNER, prevTabId, display, navActive)} :
           /\ prevTabId' = t.prevTabId
           /\ display' = t.display
           /\ navActive' = t.navActive
           /\ ret' = Handled(t.callbacks, t.outcome, <<>>)
    /\ customFilterPopup' = renderCustomFilterPopup(customFilterPopup)
    /\ call' = [name |-> "addCustomFilter", steps |-> customFilterPopup.steps,
                active |-> customFilterPopup.active]
    /\ UNCHANGED <<cacheVars, checkboxes, renderVars, popup, editors, importInputs>>

\* A click on .custom-filter-popup-next: every listener calls renderStepTwo.
PopupNext ==
    /\ customFilterPopup.active /\ customFilterPopup.opens > 0
    /\ customFilterPopup' = renderStep(customFilterPopup, 2)
    /\ call' = [name |-> "customFilterPopupNext"]
    /\ ret' = Dispatched("none")
    /\ UNCHANGED <<cacheVars, checkboxes, tabVars, renderVars, popup, editors, importInputs>>

\* A click on .custom-filter-popup-try-again: renderStepOne.
PopupTryAgain ==
    /\ customFilterPopup.active /\ customFilterPopup.opens > 0
    /\ customFilterPopup' = renderStep(customFilterPopup, 1)
    /\ call' = [name |-> "customFilterPopupTryAgain"]
    /\ ret' = Dispatched("none")
    /\ UNCHANGED <<cacheVars, checkboxes, tabVars, renderVars, popup, editors, importInputs>>

\* A click on the cross or on cancel: closePopup.
PopupClose ==
    /\ customFilterPopup.active /\ customFilterPopup.opens > 0
    /\ customFilterPopup' = closePopup(customFilterPopup)
    /\ call' = [name |-> "customFilterPopupClose"]
    /\ ret' = Dispatched("none")
    /\ UNCHANGED <<cacheVars, checkboxes, tabVars, renderVars, popup, editors, importInputs>>

(***************************************************************************)
(* Settings, and the controls of the filters whose handlers send nothing   *)
(***************************************************************************)
MaxImports == 2

\* The user clicks the toggler of a checkbox of Settings (one that is not
\* hidden): the change listener of Settings.Checkbox sends changeUserSetting.
SettingTogglerClick(c) ==
    /\ checkboxes[c].togglers > 0
    /\ checkboxes' = [checkboxes EXCEPT ![c] = ClickToggler(checkboxes[c])]
    /\ call' = [name |-> "settingTogglerClick", element |-> c]
    /\ ret' = Handled(0, "none", <<"changeUserSetting">>)
    /\ UNCHANGED <<cacheVars, pageVars>>

\* A click on #importSettingsFile: importSettingsFile creates a file input
\* and adds the change listener to it.
ImportSettingsClick ==
    /\ importInputs < MaxImports
    /\ importInputs' = importInputs + 1
    /\ call' = [name |-> "importSettingsFile"]
    /\ ret' = Dispatched("none")
    /\ UNCHANGED <<cacheVars, checkboxes, tabVars, renderVars, popup, editors,
                   customFilterPopup>>

\* The change event of a file input: the user has selected a file (or none),
\* whose reading would fail or not. The listener has no parameter and reads
\* e.currentTarget, where no e is in scope: it raises a ReferenceError before
\* it creates the FileReader, so reader.onerror and showPopup (whose body is
\* commented out) are never reached.
ImportFileChange(file, readFails) ==
    /\ importInputs > 0
    /\ call' = [name |-> "importFileChange", file |-> file, readFails |-> readFails]
    /\ ret' = Dispatched("ReferenceError")
    /\ UNCHANGED <<cacheVars, checkboxes, pageVars>>

\* toggleFilterState with this.checked: the messages it sends. The two
\* sendMessage calls are commented out.
toggleFilterState_Sends(checked) ==
    IF checked THEN <<"addAndEnableFilter">> ELSE <<"disableAntiBannerFilter">>

toggleFilterState(checked) == <<>>

\* The user clicks the toggler of a rendered filter; the change event reaches
\* toggleFilterState.
FilterTogglerClick(id) ==
    /\ id \in DOMAIN filterEls
    /\ filterEls[id].checkbox.togglers > 0
    /\ filterEls' = [filterEls EXCEPT ![id].checkbox = ClickToggler(@)]
    /\ call' = [name |-> "filterTogglerClick", filterId |-> id]
    /\ ret' = Handled(0, "none", toggleFilterState(~filterEls[id].checkbox.checked))
    /\ UNCHANGED <<cacheVars, checkboxes, tabVars, categoryEls, handlers, requests,
                   initCalls, popup, widgetVars>>

\* A click on #updateAntiBannerFilters: updateAntiBannerFilters.
UpdateFiltersClick ==
    /\ call' = [name |-> "updateAntiBannerFilters"]
    /\ ret' = Dispatched("none")
    /\ UNCHANGED <<cacheVars, checkboxes, pageVars>>

\* A click on the delete button of a rendered custom filter (group 0):
\* removeCustomFilter removes the #filter<filterId> node and nothing else.
RemoveCustomFilter(id) ==
    /\ id \in DOMAIN filterEls
    /\ filterEls[id].panel = 0
    /\ filterEls' = Restrict(filterEls, DOMAIN filterEls \ {id})
    /\ call' = [name |-> "removeCustomFilter", filterId |-> id,
                count |-> EnabledCount(GroupOf(id))]
    /\ ret' = Dispatched("none")
    /\ UNCHANGED <<cacheVars, checkboxes, tabVars, categoryEls, handlers, requests,
                   initCalls, popup, widgetVars>>

(***************************************************************************)
(* Specifications                                                          *)
(***************************************************************************)
\* The page's own state while only the cache or the widgets are exercised.
PageIdle ==
    /\ hash = EmptyHash
    /\ prevTabId = NoTab
    /\ display = [p \in StaticPanels |-> ""]
    /\ navActive = {}
    /\ categoryEls = NoElements
    /\ filterEls = NoElements
    /\ handlers = 0
    /\ requests = 0
    /\ initCalls = 0
    /\ popup = PopupHidden
    /\ editors = [e \in Editors |-> EditorIdle]
    /\ customFilterPopup = CustomPopupClosed({})
    /\ importInputs = 0

Init ==
    /\ InitCache
    /\ InitCheckboxes
    /\ PageIdle
    /\ call = NoCall
    /\ ret = "undefined"

\* The cache under any sequence of calls of its operations.
NextCache ==
    \/ \E F \in ResponseLists, C \in CategoryLists : CallInitLoadedFilters(F, C)
    \/ \E f \in EventFilters, e \in BoolArgs : CallUpdateEnabled(f, e)
    \/ \E id \in FilterIds : CallIsEnabled(id)

InitCacheOnly ==
    /\ Init
    /\ checkboxes = [c \in Elements |-> ParsedCheckbox(FALSE, FALSE)]

SpecCache == InitCacheOnly /\ [][NextCache]_vars

\* The cache's timestamp under metadata responses and finished downloads.
NextCacheTime ==
    \/ \E F \in TimeLists : CallInitLoadedFilters(F, <<Category(0)>>)
    \/ \E t \in Times : CallSetLastUpdatedTimeText(t)

SpecCacheTime == InitCacheOnly /\ [][NextCacheTime]_vars

\* The checkbox widgets under decoration, programmatic updates and clicks.
NextCheckbox ==
    \/ \E els \in SUBSET Elements : CallToggleCheckbox(els)
    \/ \E els \in SUBSET Elements, b \in BOOLEAN : CallUpdateCheckbox(els, b)
    \/ \E c \in Elements : TogglerClick(c)

SpecCheckbox == Init /\ [][NextCheckbox]_vars

\* The state when onDocumentReady has run with the hash h0: the static
\* checkboxes are decorated, the first request is sent and its listener
\* registered, TopMenu.init has called toggleTab. steps are the steps of the
\* add-custom-filter popup that the markup makes active.
InitPageWith(h0, steps) ==
    /\ InitCache
    /\ checkboxes = [c \in Elements |-> Decorate(ParsedCheckbox(FALSE, FALSE))]
    /\ hash = h0
    /\ LET t == ToggleTab(h0, NoTab, [p \in StaticPanels |-> ""], {})
       IN  /\ prevTabId = t.prevTabId
           /\ display = t.display
           /\ navActive = t.navActive
           /\ ret = Handled(t.callbacks, t.outcome, <<"getFiltersMetadata">>)
    /\ categoryEls = NoElements
    /\ filterEls = NoElements
    /\ handlers = 1
    /\ requests = 1
    /\ initCalls = 0
    /\ popup = PopupHidden
    /\ editors = [e \in Editors |-> updateRules(EditorIdle)]
    /\ customFilterPopup = CustomPopupClosed(steps)
    /\ importInputs = 0
    /\ call = [name |-> "onDocumentReady", hash |-> h0]

InitPage(h0) == InitPageWith(h0, {})

\* The tab router under hash changes and category renders.
InitTabs == \E h0 \in Hashes : InitPage(h0)

NextTabs ==
    \/ \E h \in Hashes : HashChange(h)
    \/ \E response \in TabResponses : MetadataResponse(response)
    \/ FilterAddRemove

SpecTabs == InitTabs /\ [][NextTabs]_vars

\* The rendered categories under responses and push events.
NextRender ==
    \/ \E response \in PageResponses : MetadataResponse(response)
    \/ \E f \in PageEventFilters : FilterEnableDisable(f)
    \/ FilterAddRemove
    \/ \E id \in PageFilterIds : RemoveCustomFilter(id)

SpecRender == InitPage(EmptyHash) /\ [][NextRender]_vars

\* The popup under clicks and the passing of time. Time passes and the
\* browser runs a timer that is due.
NextPopup ==
    \/ StatsReset
    \/ Tick
    \/ \E id \in 1..MaxTriggers : TimerFires(id)

SpecPopup ==
    /\ InitPage(EmptyHash)
    /\ [][NextPopup]_vars
    /\ WF_vars(Tick)
    /\ WF_vars(\E id \in 1..MaxTriggers : TimerFires(id))

\* The two editors under save clicks, update notifications and edits.
NextEditors ==
    \/ \E e \in Editors : SaveClick(e)
    \/ \E e \in Editors : UpdateNotification(e)
    \/ \E e \in Editors : EditorChange(e)

SpecEditors == InitPage(EmptyHash) /\ [][NextEditors]_vars

\* The add-custom-filter popup; the markup may mark any of its steps active.
InitCustomPopup == \E steps \in SUBSET Steps : InitPageWith(EmptyHash, steps)

NextCustomPopup ==
    \/ \E response \in TabResponses : MetadataResponse(response)
    \/ AddCustomFilter
    \/ PopupNext
    \/ PopupTryAgain
    \/ PopupClose

SpecCustomPopup == InitCustomPopup /\ [][NextCustomPopup]_vars

\* The messages to the backend: the settings, the import of a settings file
\* and the controls of the filters, with responses that hold the custom
\* group and its filter.
CustomResponses ==
    {Response(F, <<0>>) : F \in {<<>>, <<PageFilter(2, "true")>>}}

NextRequests ==
    \/ \E response \in CustomResponses : MetadataResponse(response)
    \/ FilterAddRemove
    \/ \E c \in Elements : SettingTogglerClick(c)
    \/ ImportSettingsClick
    \/ \E file \in BOOLEAN, readFails \in BOOLEAN : ImportFileChange(file, readFails)
    \/ \E id \in PageFilterIds : FilterTogglerClick(id)
    \/ \E g \in GroupIds : CategoryTogglerClick(g)
    \/ UpdateFiltersClick
    \/ \E id \in PageFilterIds : RemoveCustomFilter(id)

SpecRequests == InitPage(EmptyHash) /\ [][NextRequests]_vars

Next ==
    \/ NextCache \/ NextCacheTime \/ NextCheckbox
    \/ NextTabs \/ NextRender \/ NextPopup
    \/ NextEditors \/ NextCustomPopup \/ NextRequests

Spec == Init /\ [][Next]_vars

(***************************************************************************)
(* Properties of the filter metadata cache                                 *)
(***************************************************************************)
IdsOf(F) == {F[i].filterId : i \in DOMAIN F}

\* C1: after updateEnabled(f, true), isEnabled(f.filterId) is true, and after
\* updateEnabled(f, false) it is false (falsy), whether or not f.filterId was
\* indexed before the call and whatever enabled field f itself carries.
C1_UpdateEnabledThenIsEnabled ==
    call.name = "updateEnabled" =>
        /\ call.enabled = "true" => isEnabled(call.filterId) = "true"
        /\ call.enabled = "false" => Falsy(isEnabled(call.filterId))

C3_NeverDecreases == [][lastUpdateTime' >= lastUpdateTime]_vars

\* C3 amended: lastUpdateTime never decreases across setLastUpdatedTimeText
\* (a finished download); initLoadedFilters replaces it by the maximum of its
\* own filters, which may be lower than the value before.
C3_SetTextNeverDecreases ==
    [][call'.name = "setLastUpdatedTimeText" => lastUpdateTime' >= lastUpdateTime]_vars

\* C3 witness: a finished download reported an older, non-zero timestamp and
\* the cache kept its newer one.
C3_Witness ==
    /\ call.name = "setLastUpdatedTimeText"
    /\ call.time > 0
    /\ call.time < lastUpdateTime

\* C4: filtersById has an entry for exactly the filter ids that occur in
\* filters, and the entry of an id is the last filter of the list with that id.
C4_IndexConsistent ==
    /\ DOMAIN filtersById = IdsOf(filters)
    /\ \A id \in DOMAIN filtersById :
          /\ filtersById[id] \in DOMAIN filters
          /\ filters[filtersById[id]].filterId = id
          /\ \A j \in DOMAIN filters : filters[j].filterId = id => j <= filtersById[id]

\* C4 witness: the list holds two filters with one id, and a filter with
\* another id has been appended by updateEnabled.
C4_Witness ==
    /\ call.name = "updateEnabled"
    /\ Len(filters) = 3
    /\ filters[1].filterId = filters[2].filterId
    /\ filters[3].filterId = call.filterId
    /\ filters[3].filterId # filters[1].filterId

\* C5: isEnabled of a filter id that is not indexed returns a falsy value and
\* does not throw, in every reachable state of the cache.
C5_IsEnabledUnindexedFalsy ==
    /\ \A id \in FilterIds \ DOMAIN filtersById : Falsy(isEnabled(id))
    /\ (call.name = "isEnabled" /\ call.filterId \notin DOMAIN filtersById) => Falsy(ret)

\* C5 witness: isEnabled was called with an unindexed id on a cache that
\* holds other filters.
C5_Witness ==
    /\ call.name = "isEnabled"
    /\ call.filterId \notin DOMAIN filtersById
    /\ filters # <<>>
    /\ ret = "undefined"

\* C6: after initLoadedFilters(F, C) the filter list is F, the category list
\* is C and the index has entries for exactly the ids of F, each referring to
\* a filter of F; nothing of the earlier cache survives.
C6_TotalReplacement ==
    call.name = "initLoadedFilters" =>
        /\ filters = call.filters
        /\ categories = call.categories
        /\ DOMAIN filtersById = IdsOf(call.filters)
        /\ \A id \in DOMAIN filtersById : filtersById[id] \in DOMAIN call.filters
        /\ \A id \in call.previous \ IdsOf(call.filters) : id \notin DOMAIN filtersById

\* C6 witness: initLoadedFilters ran with a non-empty F on a cache that had
\* indexed an id which is not in F.
C6_Witness ==
    /\ call.name = "initLoadedFilters"
    /\ call.previous \ IdsOf(call.filters) # {}
    /\ filters # <<>>

\* C7: updateEnabled(f, e) with an indexed id changes only the enabled flag of
\* the indexed record; with an unindexed id it appends one entry to the list
\* and one to the index. The other records, the category list and
\* lastUpdateTime are unchanged in both cases.
C7_UpdateEnabledFrame ==
    [][call'.name = "updateEnabled" =>
        /\ categories' = categories
        /\ lastUpdateTime' = lastUpdateTime
        /\ IF call'.filterId \in DOMAIN filtersById
           THEN /\ filtersById' = filtersById
                /\ Len(filters') = Len(filters)
                /\ \A i \in DOMAIN filters :
                      filters'[i] = IF i = filtersById[call'.filterId]
                                    THEN [filters[i] EXCEPT !.enabled = call'.enabled]
                                    ELSE filters[i]
           ELSE /\ Len(filters') = Len(filters) + 1
                /\ SubSeq(filters', 1, Len(filters)) = filters
                /\ filters'[Len(filters')].filterId = call'.filterId
                /\ DOMAIN filtersById' = DOMAIN filtersById \cup {call'.filterId}
                /\ filtersById'[call'.filterId] = Len(filters')
                /\ \A k \in DOMAIN filtersById : filtersById'[k] = filtersById[k]
    ]_vars

\* C7 witness: updateEnabled changed the flag of an indexed filter that is not
\* the last of a list of at least two, with a non-zero lastUpdateTime.
C7_Witness ==
    /\ call.name = "updateEnabled"
    /\ Len(filters) >= 2
    /\ filtersById[call.filterId] < Len(filters)
    /\ filters[filtersById[call.filterId]].enabled = call.enabled
    /\ filters[Len(filters)].enabled # call.enabled
    /\ lastUpdateTime > 0

(***************************************************************************)
(* Properties of the checkbox widget adapter                               *)
(***************************************************************************)
\* C8: a decorated checkbox has exactly one toggler sibling and exactly one
\* click/change listener pair, and a toggleCheckbox call on a collection that
\* contains an already decorated checkbox changes nothing for that checkbox.
C8_DecorateIdempotent ==
    [][/\ \A c \in Elements :
             checkboxes'[c].toggleCheckbox =>
                 /\ checkboxes'[c].togglers = 1
                 /\ checkboxes'[c].clickListeners = 1
                 /\ checkboxes'[c].changeListeners = 1
       /\ call'.name = "toggleCheckbox" =>
             \A c \in call'.elements :
                 checkboxes[c].toggleCheckbox => checkboxes'[c] = checkboxes[c]
    ]_vars

\* C8 witness: toggleCheckbox ran on a collection holding a checkbox that was
\* decorated before and one that was not.
C8_Witness ==
    /\ call.name = "toggleCheckbox"
    /\ call.already # {}
    /\ call.elements \ call.already # {}
    /\ \A c \in call.elements : checkboxes[c].togglers = 1

\* C9: for a decorated checkbox the toggler is active if and only if the
\* checkbox is checked, under any interleaving of toggler clicks and
\* updateCheckbox calls; a toggler click inverts the checked state and
\* dispatches one change event.
C9_TogglerMirrorsChecked ==
    /\ \A c \in Elements :
          checkboxes[c].toggleCheckbox =>
              (checkboxes[c].togglerActive <=> checkboxes[c].checked)
    /\ call.name = "togglerClick" =>
          /\ checkboxes[call.element].checked = ~call.before
          /\ ret = 1

\* C10: after updateCheckbox(elements, b) every checkbox of elements has
\* checked state b and active state b (the class the call sets on its li),
\* whether or not the user toggled it before.
C10_UpdateCheckboxSetsState ==
    call.name = "updateCheckbox" =>
        \A c \in call.elements :
            /\ checkboxes[c].checked = call.checked
            /\ checkboxes[c].liActive = call.checked

(***************************************************************************)
(* Properties of the tab router                                            *)
(***************************************************************************)
\* A hash that makes toggleTab fall back to the default tab, given the ids of
\* the panels in the document.
FallsBack(h, panels) == h = EmptyHash \/ (h \notin panels /\ ~StartsWithAntibanner(h))

VisiblePanels == {p \in DOMAIN display : display[p] = "block"}

\* C11: toggleTab for a hash #antibanner<id> whose panel is not in the
\* document changes nothing: no panel changes visibility, no nav item
\* changes its highlight, prevTabId keeps its value, the whitelist callback
\* is not invoked and no error is raised.
C11_DeferIsNoOp ==
    /\ [](call.name = "onDocumentReady" /\ StartsWithAntibanner(hash)
            /\ hash \notin StaticPanels
          => /\ prevTabId = NoTab /\ VisiblePanels = {} /\ navActive = {}
             /\ ret.callbacks = 0 /\ ret.outcome = "return")
    /\ [][call'.name = "hashchange" /\ StartsWithAntibanner(hash')
            /\ hash' \notin DOMAIN display
          => /\ display' = display /\ navActive' = navActive
             /\ prevTabId' = prevTabId
             /\ ret'.callbacks = 0 /\ ret'.outcome = "return"]_vars

C11_Witness ==
    /\ call.name = "hashchange"
    /\ StartsWithAntibanner(call.hash) /\ call.hash \notin call.rendered
    /\ ret.outcome = "return"
    /\ prevTabId = WHITELIST /\ Visible(WHITELIST)
    /\ hash = call.hash

\* C12: when the hash names a filters sub-panel that was not in the document
\* (toggleTab deferred for it) and a metadata response renders that panel,
\* handling the response leaves the hash as it is and makes the panel the
\* visible current tab, the only visible one.
C12_DeferredPanelShown ==
    [][call'.name = "getFiltersMetadataResponse" /\ StartsWithAntibanner(hash)
         /\ hash \notin DOMAIN display /\ hash \in DOMAIN display'
       => /\ hash' = hash
          /\ display'[hash] = "block"
          /\ prevTabId' = hash
          /\ \A p \in DOMAIN display' : display'[p] = "block" => p = hash]_vars

C12_Witness ==
    /\ call.name = "getFiltersMetadataResponse"
    /\ StartsWithAntibanner(hash) /\ hash \notin call.rendered
    /\ Visible(hash)
    /\ prevTabId = hash
    /\ display[GENERAL_SETTINGS] = "none"

C15_CallbackOnlyForWhitelist ==
    /\ [](call.name = "onDocumentReady"
          => ret.callbacks = IF hash = WHITELIST THEN 1 ELSE 0)
    /\ [][call'.name \in {"hashchange", "getFiltersMetadataResponse"}
          => ret'.callbacks = IF call'.name = "hashchange" /\ hash' = WHITELIST
                              THEN 1 ELSE 0]_vars

C15_Witness ==
    /\ call.name = "hashchange"
    /\ hash = WHITELIST
    /\ ret.callbacks = 1
    /\ prevTabId = WHITELIST /\ Visible(WHITELIST)
    /\ call.prevTabId = AntibannerPanel(0)

(***************************************************************************)
(* Properties of the reset-stats popup                                     *)
(***************************************************************************)
\* C16: at most one hide timer is pending at any time, the one whose id the
\* controller holds: every _onStatsReset clears the timer scheduled before
\* it, whether that timer is still pending or has fired.
C16_AtMostOnePendingTimer ==
    /\ Cardinality(DOMAIN popup.pending) <= 1
    /\ DOMAIN popup.pending \subseteq {popup.closePopupTimeoutId}

C16_Witness ==
    /\ call.name = "onResetStatsClicked"
    /\ popup.created = MaxTriggers
    /\ popup.cleared > 0
    /\ DOMAIN popup.pending = {popup.closePopupTimeoutId}

\* C17: the popup is visible exactly while a hide timer is pending, from a
\* trigger on; a timer hides it only when the full duration has passed since
\* the latest trigger, so never the timer of an earlier trigger, and at most
\* once per trigger; a visible popup is eventually hidden.
C17_HiddenAfterDelaySinceLastTrigger ==
    /\ [](popup.display = "block" <=> DOMAIN popup.pending # {})
    /\ [](popup.hides <= 1)
    /\ [][call'.name = "timeout"
          => /\ popup.sinceTrigger = PopupHideDelay
             /\ call'.id = popup.closePopupTimeoutId
             /\ popup'.display = "none"]_vars
    /\ (popup.display = "block" ~> popup.display = "none")

C17_Witness ==
    /\ call.name = "timeout"
    /\ call.id = MaxTriggers
    /\ popup.cleared > 0
    /\ popup.display = "none"
    /\ popup.hides = 1

(***************************************************************************)
(* Properties of the rendered categories and of the cache's lifecycle      *)
(***************************************************************************)
GroupsOf(C) == {C[j].groupId : j \in DOMAIN C}

\* C18 (as stated): initLoadedFilters is executed once per page load, and
\* every later change of the cache is made by a push event.
C18_InitializedOnce ==
    /\ [](initCalls <= 1)
    /\ [][initCalls >= 1 /\ cacheVars' # cacheVars
          => call'.name \in {"FILTER_ENABLE_DISABLE", "FILTER_ADD_REMOVE"}]_vars

\* C18 (amended): initLoadedFilters is executed by every metadata response,
\* once by each listener registered so far, and replaces the cache by the
\* response; a filter-added/removed event leaves the cache alone and sends a
\* new request with one more listener; a filter-enabled/disabled event is
\* the only incremental patch: it keeps the categories, the timestamp and
\* the position of every indexed filter. Nothing else changes the cache.
C18_InitializedByEveryResponse ==
    [][/\ (initCalls' # initCalls <=> call'.name = "getFiltersMetadataResponse")
       /\ (call'.name = "getFiltersMetadataResponse"
           => /\ initCalls' = initCalls + handlers
              /\ filters' = call'.response.filters
              /\ categories' = call'.response.categories)
       /\ (call'.name = "FILTER_ADD_REMOVE"
           => /\ cacheVars' = cacheVars
              /\ requests' = requests + 1
              /\ handlers' = handlers + 1)
       /\ (call'.name = "FILTER_ENABLE_DISABLE"
           => /\ categories' = categories /\ lastUpdateTime' = lastUpdateTime
              /\ initCalls' = initCalls
              /\ \A id \in DOMAIN filtersById :
                    id \in DOMAIN filtersById' /\ filtersById'[id] = filtersById[id]
              /\ Len(filters') \in {Len(filters), Len(filters) + 1})
       /\ (cacheVars' # cacheVars
           => call'.name \in {"getFiltersMetadataResponse", "FILTER_ENABLE_DISABLE"})]_vars

C18_Witness ==
    /\ call.name = "getFiltersMetadataResponse"
    /\ handlers > 1
    /\ initCalls > handlers
    /\ filters = call.response.filters /\ filters # <<>>

\* C19: once a metadata response has been rendered, the category nodes and
\* the content panels in the document are those of the categories of the
\* latest response, one of each per category and no other.
C19_RenderedAreLatestResponse ==
    initCalls > 0
    => /\ DOMAIN categoryEls = GroupsOf(categories)
       /\ DOMAIN display \ StaticPanels = {AntibannerPanel(g) : g \in GroupsOf(categories)}

\* C20: after a handled metadata response and after a handled
\* filter-enabled/disabled event, every rendered category shows the number of
\* cached filters of its group for which isEnabled is truthy, and its
\* checkbox has been set checked exactly when that number is positive.
C20_CountMatchesCache ==
    call.name \in {"getFiltersMetadataResponse", "FILTER_ENABLE_DISABLE"}
    => \A g \in DOMAIN categoryEls :
          /\ categoryEls[g].desc = EnabledCount(g)
          /\ categoryEls[g].checkbox.checkedAttr <=> EnabledCount(g) > 0

(***************************************************************************)
(* Properties of the push events, the requests and the custom filters      *)
(***************************************************************************)
\* C21: after removeCustomFilter for a filter, its id is in neither the
\* filter list nor the index of the cache, isEnabled of it is falsy and it
\* is not counted among the enabled filters of its category.
C21_RemovedFromCache ==
    call.name = "removeCustomFilter"
    => /\ call.filterId \notin IdsOf(filters)
       /\ call.filterId \notin DOMAIN filtersById
       /\ Falsy(isEnabled(call.filterId))

\* The number of filters of list F in the group that the index idx reports
\* enabled.
EnabledAmong(F, idx, groupId) ==
    Cardinality({i \in DOMAIN F :
        /\ F[i].groupId = groupId
        /\ F[i].filterId \in DOMAIN idx
        /\ Truthy(F[idx[F[i].filterId]].enabled)})

\* C22: a filter-enabled/disabled event for a filter whose id is not in the
\* cache is handled without an error: the filter is appended to the list and
\* the index, and the count of its category, when rendered, is refreshed.
C22_UnknownFilterHandled ==
    [][call'.name = "FILTER_ENABLE_DISABLE"
         /\ call'.filter.filterId \notin DOMAIN filtersById
       => /\ ret'.outcome = "none"
          /\ filters' = Append(filters, call'.filter)
          /\ call'.filter.filterId \in DOMAIN filtersById'
          /\ (call'.filter.groupId \in DOMAIN categoryEls'
              => categoryEls'[call'.filter.groupId].desc
                   = EnabledAmong(filters', filtersById', call'.filter.groupId))]_vars

\* C23: when the user has selected a file in the import flow and reading it
\* fails, a popup with the import-error message is shown.
C23_ReadFailureShowsPopup ==
    call.name = "importFileChange" /\ call.file /\ call.readFails
    => ret.shown # <<>>

\* C24 (as stated): no message is ever sent to the backend, at the
\* initialization or by any handler.
C24_NothingSent == ret.sent = <<>>

\* C24 (amended): onDocumentReady and every filter-added/removed event send
\* one getFiltersMetadata message, a change of a settings checkbox sends one
\* changeUserSetting message, and no other handler sends anything.
C24_MetadataAndSettingsSent ==
    /\ [](call.name = "onDocumentReady"
          => ret.sent = <<"getFiltersMetadata">> /\ requests = 1)
    /\ [][/\ ret'.sent = IF call'.name = "FILTER_ADD_REMOVE"
                         THEN <<"getFiltersMetadata">>
                         ELSE IF call'.name = "settingTogglerClick"
                         THEN <<"changeUserSetting">>
                         ELSE <<>>
          /\ (requests' > requests <=> call'.name = "FILTER_ADD_REMOVE")
          /\ (requests' > requests => requests' = requests + 1)]_vars

C24_Witness ==
    /\ call.name = "filterTogglerClick"
    /\ ret.sent = <<>>
    /\ handlers > 1
    /\ initCalls > 0
    /\ importInputs > 0

\* C25: at most one response listener is registered at any time, and every
\* metadata response causes one initLoadedFilters call.
C25_OneHandlerPerResponse ==
    /\ [](handlers <= 1)
    /\ [][call'.name = "getFiltersMetadataResponse"
          => initCalls' = initCalls + 1]_vars

\* C26: a filter-enabled/disabled event that arrives before the first
\* metadata response has been handled raises no error, and the metadata
\* response that follows leaves the cache equal to the filters of the
\* response.
C26_EventBeforeFirstResponse ==
    [][/\ (call'.name = "FILTER_ENABLE_DISABLE" /\ initCalls = 0
           => ret'.outcome = "none")
       /\ (call'.name = "getFiltersMetadataResponse"
           => filters' = call'.response.filters)]_vars

(***************************************************************************)
(* Properties of the editors                                               *)
(***************************************************************************)
\* C27: omitRenderEventsCount of either editor is 0 or 1. A save click sets
\* it to 1, whatever it was; an update notification that finds it 1 is
\* skipped without a reload and sets it to 0, and one that finds it 0
\* reloads.
C27_OmitCountZeroOrOne ==
    /\ [](\A e \in Editors : editors[e].omitRenderEventsCount \in {0, 1})
    /\ [][/\ (call'.name = "saveClick"
              => editors'[call'.editor].omitRenderEventsCount = 1)
          /\ (call'.name = "updateNotification"
              => /\ editors'[call'.editor].omitRenderEventsCount = 0
                 /\ ret'.outcome = IF editors[call'.editor].omitRenderEventsCount = 1
                                   THEN "skipped" ELSE "loaded")]_vars

C27_Witness ==
    /\ call.name = "updateNotification"
    /\ ret.outcome = "skipped"
    /\ editors[call.editor].omitRenderEventsCount = 0
    /\ editors[call.editor].readOnly
    /\ \E e \in Editors : editors[e].omitRenderEventsCount = 1

\* C28: a click on the apply-changes button makes the editor read-only, and
\* an editor that is read-only stays read-only.
C28_ReadOnlyForever ==
    [][/\ (call'.name = "saveClick" => editors'[call'.editor].readOnly)
       /\ \A e \in Editors : editors[e].readOnly => editors'[e].readOnly]_vars

C28_Witness ==
    /\ call.name = "updateNotification"
    /\ ret.outcome = "loaded"
    /\ editors[call.editor].readOnly
    /\ editors[call.editor].applyChangesBtn = "block"

(***************************************************************************)
(* Properties of the add-custom-filter popup                               *)
(***************************************************************************)
\* C29: once the popup has been opened, exactly one of its four steps is
\* marked active; every opening makes the popup active at step 1.
C29_ExactlyOneActiveStep ==
    /\ [](customFilterPopup.opens > 0
          => /\ Cardinality(customFilterPopup.steps) = 1
             /\ customFilterPopup.steps \subseteq Steps)
    /\ [][call'.name = "addCustomFilter"
          => customFilterPopup'.steps = {1} /\ customFilterPopup'.active]_vars

C29_Witness ==
    /\ call.name = "addCustomFilter"
    /\ call.steps = {2} /\ ~call.active
    /\ customFilterPopup.opens = MaxOpens
    /\ customFilterPopup.steps = {1} /\ customFilterPopup.active

=============================================================================
